---- MODULE Spec2Model ----
(***************************************************************************)
(* Stream lifecycle orchestration of the video-aggregation gateway:        *)
(* the stream state machine (stream_state_machine.py), the ingestion       *)
(* service (stream_ingestion_service.py), the producer service             *)
(* (producer_service.py) and the device start route (routes/devices.py,    *)
(* routes/ruth_ai_compat.py).                                              *)
(*                                                                         *)
(* One stream row is modelled.  Every service call runs in a database      *)
(* session of its own (database.py: get_db, expire_on_commit=False,        *)
(* autoflush=False): a call works on the Stream object it loaded (its      *)
(* "view"), and a commit writes the changed attributes and the added rows  *)
(* to the stored row whatever other sessions committed in between.  A call *)
(* is cut into steps at its await points.                                  *)
(***************************************************************************)
EXTENDS FiniteSets, Integers, Naturals, Sequences, TLC

(* ---------------- bounds ---------------- *)
\* number of service calls begun in one behaviour
MaxOps == 4
\* number of call slots, i.e. of calls in flight at the same time
MaxCalls == 2
\* number of OS processes that reference the source URI before a device start
MaxOrphans == 2
\* number of device start requests in one behaviour
MaxDevStarts == 2

\* number of Consumer rows
MaxConsumers == 2
\* last value of the clock
MaxClock == 123
\* number of sweep passes that fail in one behaviour
MaxSweepErrors == 1
MaxConsCalls == 2

\* number of WebSocket connection identifiers, of stream rooms, and of WebSocket manager calls
MaxConnections == 2
MaxRooms == 2
MaxWsOps == 5
\* sweep tasks ever created, and calls of stop_cleanup_task
MaxTasks == 3
MaxStops == 3
\* streams that are ingested side by side
MaxStreams == 3
MaxPortOps == 4

Slots == 1..MaxCalls
ConsumerIds == 1..MaxConsumers
\* the instants at which something is observed, in seconds
ClockValues == {0, 1, 60, 61, MaxClock}
SSRCs == {1, 2}

(* ---------------- app/models/stream.py, app/models/producer.py ---------------- *)
StreamState == {"initializing", "ready", "live", "error", "stopped", "closed"}
\* Stream.state as the state machine sees it: a member of the enum, or None
StreamStateOrNone == StreamState \cup {"none"}
ProducerState == {"creating", "active", "paused", "closed"}

VARIABLES
  catalog,      \* what the store holds for the requested id: the stream, its camera, the camera's rtsp_url
  state,        \* stored Stream.state
  audit,        \* stored StreamStateTransition rows of the stream, in commit order
  codec,        \* stored Stream.codec_config: 0 = {} , otherwise the ssrc it holds
  producers,    \* stored Producer rows of the stream, in insertion order
  registry,     \* StreamIngestionService.active_processes[stream_id]: {} = no entry, {pid} = an entry (pid 0 = None)
  procs,        \* pids of the running forwarding processes spawned by rtsp_pipeline.start_stream
  pipeline,     \* the pids rtsp_pipeline tracks for the stream id: {} or {pid}
  nextPid,      \* next pid the OS hands out
  fabric,       \* producers that exist in the forwarding fabric: set of [id, ssrc]
  nextFab,      \* next fabric producer id
  calls,        \* the call slots: one record per service call in flight or finished
  nops,         \* number of calls begun
  dev,          \* the device start route: rtsp_pipeline.active_streams[room_id] (active), the OS
                \* processes whose command line references the rtsp_url (procs), the fabric producers
                \* and transports of the room, the requests in flight (calls), and what the request
                \* that started the stream returned (started),
  cons,         \* the consumer sessions: the clock (now), the stored Consumer rows (rows), the
                \* ConsumerService calls in flight (calls), the sweep task (sweep)
  ws,           \* the WebSocket manager: its three dictionaries, the calls made so far (nops),
                \* the stream of the latest add of each connection since its removal (latest),
                \* and what the last get_room_connections returned (ret)
  task,         \* the asyncio tasks of the consumer sweep: ConsumerService.cleanup_task (handle,
                \* 0 = None), the tasks that have not finished (running), the tasks cancel() was
                \* called on (cancelled), the stop_cleanup_task calls in flight (stops),
  active_ports  \* the service's active_processes over several streams: for each stream id the
                \* ssrc and rtp_port of its entry, or NoEntry (entries), and the calls made (nops)

orchVars == <<catalog, state, audit, codec, producers, registry, procs, pipeline, nextPid, fabric, nextFab, calls, nops>>
vars == <<catalog, state, audit, codec, producers, registry, procs, pipeline, nextPid, fabric, nextFab, calls, nops, dev, cons, ws, task, active_ports>>

(* ---------------- app/services/stream_state_machine.py ---------------- *)
VALID_TRANSITIONS_StoppedToInitializing(s) ==
  CASE s = "none"         -> {"initializing"}
    [] s = "initializing" -> {"ready", "error"}
    [] s = "ready"        -> {"live", "error"}
    [] s = "live"         -> {"error", "stopped"}
    [] s = "error"        -> {"live", "stopped", "closed"}
    [] s = "stopped"      -> {"live", "closed", "initializing"}
    [] s = "closed"       -> {}

\* a table in which a CLOSED stream can be stopped again
VALID_TRANSITIONS_ClosedToStopped(s) ==
  CASE s = "none"         -> {"initializing"}
    [] s = "initializing" -> {"ready", "error"}
    [] s = "ready"        -> {"live", "error"}
    [] s = "live"         -> {"error", "stopped"}
    [] s = "error"        -> {"live", "stopped", "closed"}
    [] s = "stopped"      -> {"live", "closed"}
    [] s = "closed"       -> {"stopped"}

VALID_TRANSITIONS(s) ==
  CASE s = "none"         -> {"initializing"}
    [] s = "initializing" -> {"ready", "error"}
    [] s = "ready"        -> {"live", "error"}
    [] s = "live"         -> {"error", "stopped"}
    [] s = "error"        -> {"live", "stopped", "closed"}
    [] s = "stopped"      -> {"live", "closed"}
    [] s = "closed"       -> {}

is_valid_transition(from_state, to_state) == to_state \in VALID_TRANSITIONS(from_state)

\* is_terminal_state(state): the table has no target for the state
is_terminal_state(s) == VALID_TRANSITIONS(s) = {}

\* the audit row transition() adds to the session
StreamStateTransition(from_state, to_state, reason) ==
  [from_state |-> from_state, to_state |-> to_state, reason |-> reason]

transition_NoAudit(log, from_state, to_state, reason) == log

\* transition(): the audit rows after a valid transition of a stream whose rows are log
transition(log, from_state, to_state, reason) ==
  Append(log, StreamStateTransition(from_state, to_state, reason))

(* ---------------- call slots ---------------- *)
NoCall == [op |-> "idle", pc |-> "done", view |-> "unloaded", arg |-> "none",
           ssrc |-> 0, pid |-> 0, prod |-> 0, restart |-> FALSE, out |-> "none", closed |-> << >>]

Busy(c) == calls[c].pc # "done"

\* a call begins in the lowest free slot
FreeSlot(c) == ~Busy(c) /\ \A d \in Slots : d < c => Busy(d)

\* the Stream object a select returns: the session's object if it has one, the stored row otherwise
Load(c) == IF calls[c].view = "unloaded" THEN state ELSE calls[c].view

\* a call returns or raises: its session and its locals are gone, the slot keeps what the caller saw
\* the slots after slot c became rec: only the call that finished last keeps its outcome
Put(c, rec) ==
  [d \in Slots |-> IF d = c THEN rec
                   ELSE IF rec.pc = "done" /\ calls[d].pc = "done" THEN NoCall ELSE calls[d]]

Finish(c, result) == [calls[c] EXCEPT !.pc = "done", !.out = result, !.ssrc = 0, !.pid = 0, !.prod = 0]

(* ---------------- app/services/consumer_service.py: constants and rows ---------------- *)
heartbeat_timeout_seconds == 60

ConsumerState == {"connecting", "connected", "paused", "closed"}

\* Consumer.extra_metadata, by the keys the service writes
NoMeta == [cleanup_reason |-> "none", force_closed |-> FALSE, close_reason |-> "none"]

\* a Consumer row as it is before the service touches it; closed_at -1 is None
Consumer(st) ==
  [state |-> st, last_seen_at |-> 0, closed_at |-> IF st = "closed" THEN 0 ELSE -1, metadata |-> NoMeta]

\* a ConsumerService call that is not running
NoConsCall == [op |-> "idle", pc |-> "done", id |-> 0, t |-> 0, meta |-> NoMeta, reason |-> "none", out |-> "none"]

\* the cleanup task is not started, no pass is running
\* failed is the consumer whose processing raised in the pass that ended last (0: none)
NoSweep == [pc |-> "off", stale |-> {}, t |-> 0, meta |-> [id \in ConsumerIds |-> NoMeta], errors |-> 0, failed |-> 0]

ConsInit ==
  [now |-> 0,
   rows |-> [id \in ConsumerIds |-> Consumer("connecting")],
   calls |-> [c \in Slots |-> NoConsCall],
   sweep |-> NoSweep,
   ncalls |-> 0]

(* ---------------- app/services/websocket_manager.py: the manager after __init__ ---------------- *)
ConnectionIds == 1..MaxConnections
RoomIds == 1..MaxRooms

\* a dictionary without entry
EmptyDict == [x \in {} |-> 0]

\* lines 23-29: three empty dictionaries; latest 0 = the connection is not added
StreamIds == 1..MaxStreams
\* the 32-bit synchronization sources a probe reports here: small ones, the ones around the
\* modulus, and a large one
SsrcValues == {1, 49999, 50000, 50001, 100001, 2147483647}
NoEntry == [ssrc |-> 0, rtp_port |-> 0]
\* stream_ingestion_service.py line 43: active_processes is empty
NoPorts == [entries |-> [s \in StreamIds |-> NoEntry], nops |-> 0]

\* consumer_service.py line 38: cleanup_task is None; no task exists, no stop is in flight
TaskInit ==
  [handle |-> 0, running |-> {}, cancelled |-> {}, swept |-> {}, stops |-> [c \in Slots |-> 0],
   next |-> 1, nstops |-> 0, ret |-> "none"]

WsInit ==
  [connections |-> EmptyDict, stream_rooms |-> EmptyDict, connection_rooms |-> EmptyDict,
   latest |-> [id \in ConnectionIds |-> 0], ret |-> {}, nops |-> 0]

(* ---------------- initial states ---------------- *)
\* a request of the device start route that is not running
NoDevCall == [route |-> "none", pc |-> "done", transport |-> 0, ssrc |-> 0, producer |-> 0,
              out |-> "none", reconnect |-> FALSE, ret_transport |-> 0, ret_producer |-> 0]

\* the device route on a device without forwarding process
DevInit ==
  [active |-> {}, procs |-> {}, producers |-> << >>, transports |-> {}, nextPid |-> 1, nextId |-> 1,
   calls |-> [c \in Slots |-> NoDevCall], nstarts |-> 0, started |-> [transport |-> 0, producer |-> 0]]

\* the stream row before its first transition (state None, no audit row), or
\* created through the state machine (None -> INITIALIZING, the column default)
InitRows ==
  \/ state = "none" /\ audit = << >>
  \/ state = "initializing" /\ audit = << StreamStateTransition("none", "initializing", "created") >>

Init ==
  /\ catalog \in {"ok", "no_stream", "no_camera", "no_rtsp_url"}
  /\ InitRows
  /\ codec = 0
  /\ producers = << >>
  /\ registry = {}
  /\ procs = {}
  /\ pipeline = {}
  /\ nextPid = 1
  /\ fabric = {}
  /\ nextFab = 1
  /\ calls = [c \in Slots |-> NoCall]
  /\ nops = 0
  /\ dev = DevInit
  /\ cons = ConsInit
  /\ ws = WsInit
  /\ task = TaskInit
  /\ active_ports = NoPorts

(* ---------------- the state machine called directly ---------------- *)
\* a Stream object in any state, its session empty
InitFSM ==
  /\ catalog = "ok"
  /\ state \in StreamStateOrNone
  /\ audit = << >>
  /\ codec = 0 /\ producers = << >> /\ registry = {} /\ procs = {} /\ pipeline = {} /\ nextPid = 1
  /\ fabric = {} /\ nextFab = 1
  /\ calls = [c \in Slots |-> NoCall]
  /\ nops = 0
  /\ dev = DevInit
  /\ cons = ConsInit
  /\ ws = WsInit
  /\ task = TaskInit
  /\ active_ports = NoPorts

\* StreamStateMachine.transition(stream, to_state, reason, metadata, db)
Transition(to_state) ==
  /\ nops < MaxOps
  /\ nops' = nops + 1
  /\ IF is_valid_transition(state, to_state)
       THEN /\ state' = to_state
            /\ audit' = transition(audit, state, to_state, "direct")
            /\ calls' = Put(1, [NoCall EXCEPT !.op = "transition", !.arg = to_state, !.out = "ok"])
       ELSE /\ calls' = Put(1, [NoCall EXCEPT !.op = "transition", !.arg = to_state, !.out = "raised"])
            /\ UNCHANGED <<state, audit>>
  /\ UNCHANGED <<catalog, codec, producers, registry, procs, pipeline, nextPid, fabric, nextFab, dev, cons, ws, task, active_ports>>

(* ---------------- rtsp_pipeline and the fabric client, as their callers use them ---------------- *)
\* capture_ssrc_with_temp_ffmpeg(rtsp_url): the detected ssrc, or 0 when none is detected
ProbeResults == SSRCs \cup {0}

(* ---------------- app/services/stream_ingestion_service.py ---------------- *)
\* a start that looks for the stream only, not for its camera nor the camera's rtsp_url
StartLoad_StreamOnly(c, call) ==
  IF catalog = "no_stream"
    THEN calls' = Put(c, [call EXCEPT !.op = "start", !.pc = "done", !.out = "raised", !.arg = "load"])
    ELSE calls' = Put(c, [call EXCEPT !.op = "start", !.pc = "si_init", !.out = "none",
                                                     !.view = IF call.view = "unloaded" THEN state ELSE call.view])

\* lines 75-92: the selects of start_ingestion and its three early errors
StartLoad(c, call) ==
  IF catalog # "ok"
    THEN calls' = Put(c, [call EXCEPT !.op = "start", !.pc = "done", !.out = "raised", !.arg = "load"])
    ELSE calls' = Put(c, [call EXCEPT !.op = "start", !.pc = "si_init", !.out = "none",
                                                     !.view = IF call.view = "unloaded" THEN state ELSE call.view])

start_ingestion(c) ==
  /\ FreeSlot(c) /\ nops < MaxOps
  /\ nops' = nops + 1
  /\ StartLoad(c, NoCall)
  /\ UNCHANGED <<catalog, state, audit, codec, producers, registry, procs, pipeline, nextPid, fabric, nextFab, dev, cons, ws, task, active_ports>>

\* lines 96-104: transition to INITIALIZING and commit, outside the try block
start_initializing(c) ==
  /\ calls[c].pc = "si_init"
  /\ IF is_valid_transition(calls[c].view, "initializing")
       THEN /\ state' = "initializing"
            /\ audit' = transition(audit, calls[c].view, "initializing", "starting")
            /\ calls' = Put(c, [calls[c] EXCEPT !.view = "initializing", !.pc = "si_probe"])
       ELSE /\ calls' = Put(c, [Finish(c, "raised") EXCEPT !.arg = "initializing"])
            /\ UNCHANGED <<state, audit>>
  /\ UNCHANGED <<catalog, codec, producers, registry, procs, pipeline, nextPid, fabric, nextFab, nops, dev, cons, ws, task, active_ports>>

\* lines 107-114: capture the ssrc; a falsy result raises inside the try block
start_capture_ssrc(c) ==
  /\ calls[c].pc = "si_probe"
  /\ \E r \in ProbeResults :
       calls' = Put(c, [calls[c] EXCEPT !.ssrc = r, !.pc = IF r = 0 THEN "si_fail" ELSE "si_spawn",
                              !.arg = IF r = 0 THEN "probe" ELSE "none"])
  /\ UNCHANGED <<catalog, state, audit, codec, producers, registry, procs, pipeline, nextPid, fabric, nextFab, nops, dev, cons, ws, task, active_ports>>

\* lines 116-127: rtsp_start_stream spawns the forwarding process, raises, or returns an error result without a pid
start_spawn(c) ==
  /\ calls[c].pc = "si_spawn"
  /\ \/ /\ procs' = procs \cup {nextPid}
        /\ pipeline' = {nextPid}
        /\ nextPid' = nextPid + 1
        /\ calls' = Put(c, [calls[c] EXCEPT !.pid = nextPid, !.pc = "si_ready"])
     \/ /\ calls' = Put(c, [calls[c] EXCEPT !.pid = 0, !.pc = "si_ready"])
        /\ UNCHANGED <<procs, pipeline, nextPid>>
     \/ /\ calls' = Put(c, [calls[c] EXCEPT !.pc = "si_fail", !.arg = "spawn"])
        /\ UNCHANGED <<procs, pipeline, nextPid>>
  /\ UNCHANGED <<catalog, state, audit, codec, producers, registry, fabric, nextFab, nops, dev, cons, ws, task, active_ports>>

\* lines 131-170: record the process, transition to READY, store the codec config, commit, return
start_ready(c) ==
  /\ calls[c].pc = "si_ready"
  /\ registry' = {calls[c].pid}
  /\ IF is_valid_transition(calls[c].view, "ready")
       THEN /\ state' = "ready"
            /\ audit' = transition(audit, calls[c].view, "ready", "started")
            /\ codec' = calls[c].ssrc
            /\ calls' = Put(c, [Finish(c, "ok") EXCEPT !.view = "ready"])
       ELSE /\ calls' = Put(c, [calls[c] EXCEPT !.pc = "si_fail", !.arg = "ready"])
            /\ UNCHANGED <<state, audit, codec>>
  /\ UNCHANGED <<catalog, producers, procs, pipeline, nextPid, fabric, nextFab, nops, dev, cons, ws, task, active_ports>>

\* lines 172-189: the except block: transition to ERROR, commit, drop the registry entry, raise
start_failed(c) ==
  /\ calls[c].pc = "si_fail"
  /\ IF is_valid_transition(calls[c].view, "error")
       THEN /\ state' = "error"
            /\ audit' = transition(audit, calls[c].view, "error", "failed")
            /\ registry' = {}
            /\ calls' = Put(c, [Finish(c, "raised") EXCEPT !.view = "error"])
       ELSE /\ calls' = Put(c, Finish(c, "raised"))
            /\ UNCHANGED <<state, audit, registry>>
  /\ UNCHANGED <<catalog, codec, producers, procs, pipeline, nextPid, fabric, nextFab, nops, dev, cons, ws, task, active_ports>>

\* a restart that gives up when its stop phase raised
FinishStop_Propagates(c, result) ==
  IF calls[c].restart /\ result = "ok"
    THEN [calls[c] EXCEPT !.pc = "rs_sleep", !.arg = result]
    ELSE Finish(c, result)

\* how a stop phase ends: it returns, or restart_ingestion goes on to its start phase
FinishStop(c, result) ==
  IF calls[c].restart
    THEN [calls[c] EXCEPT !.pc = "rs_sleep", !.arg = result]
    ELSE Finish(c, result)

\* lines 212-222: the select of stop_ingestion
StopLoad(c, call) ==
  IF catalog = "no_stream"
    THEN calls' = Put(c, IF call.restart
                                         THEN [call EXCEPT !.pc = "rs_sleep", !.arg = "raised"]
                                         ELSE [call EXCEPT !.pc = "done", !.out = "raised"])
    ELSE calls' = Put(c, [call EXCEPT !.pc = "st_stop", !.view = state])

stop_ingestion(c) ==
  /\ FreeSlot(c) /\ nops < MaxOps
  /\ nops' = nops + 1
  /\ StopLoad(c, [NoCall EXCEPT !.op = "stop"])
  /\ UNCHANGED <<catalog, state, audit, codec, producers, registry, procs, pipeline, nextPid, fabric, nextFab, dev, cons, ws, task, active_ports>>

\* a stop that leaves the tracked process running
stop_process_NoKill(c) ==
  /\ calls[c].pc = "st_stop"
  /\ calls' = Put(c, [calls[c] EXCEPT !.pc = "st_commit"])
  /\ UNCHANGED <<catalog, state, audit, codec, producers, registry, procs, pipeline, nextPid, fabric, nextFab, nops, dev, cons, ws, task, active_ports>>

\* lines 225-226: rtsp_stop_stream stops the process the pipeline tracks for the stream
stop_process(c) ==
  /\ calls[c].pc = "st_stop"
  /\ procs' = procs \ pipeline
  /\ pipeline' = {}
  /\ calls' = Put(c, [calls[c] EXCEPT !.pc = "st_commit"])
  /\ UNCHANGED <<catalog, state, audit, codec, producers, registry, nextPid, fabric, nextFab, nops, dev, cons, ws, task, active_ports>>

\* lines 228-254: transition to STOPPED, commit, drop the registry entry; an invalid transition is re-raised
stop_stopped(c) ==
  /\ calls[c].pc = "st_commit"
  /\ IF is_valid_transition(calls[c].view, "stopped")
       THEN /\ state' = "stopped"
            /\ audit' = transition(audit, calls[c].view, "stopped", "stopped")
            /\ registry' = {}
            /\ calls' = Put(c, [FinishStop(c, "ok") EXCEPT !.view = "stopped"])
       ELSE /\ calls' = Put(c, FinishStop(c, "raised"))
            /\ UNCHANGED <<state, audit, registry>>
  /\ UNCHANGED <<catalog, codec, producers, procs, pipeline, nextPid, fabric, nextFab, nops, dev, cons, ws, task, active_ports>>

\* a health check that reports every stream without a live process as not running
HealthStatus_NoPidIsNotRunning(entry, running) ==
  IF entry = {} \/ entry = {0} THEN {"not_running"}
  ELSE IF entry \subseteq running THEN {"running", "error"}
  ELSE {"process_dead", "process_not_found", "error"}

\* lines 276-343: the statuses get_ingestion_health can report for a registry entry ({} = no entry,
\* {0} = an entry without pid) and the set of running pids; psutil decides between process_dead
\* and process_not_found, and any other psutil exception is reported as error
HealthStatus(entry, running) ==
  IF entry = {} THEN {"not_running"}
  ELSE IF entry = {0} THEN {"no_pid"}
  ELSE IF entry \subseteq running THEN {"running", "error"}
  ELSE {"process_dead", "process_not_found", "error"}

\* lines 256-343: get_ingestion_health reads the registry and the OS, it has no await before it returns
get_ingestion_health(c) ==
  /\ FreeSlot(c) /\ nops < MaxOps
  /\ nops' = nops + 1
  /\ \E status \in HealthStatus(registry, procs) :
       calls' = Put(c, [NoCall EXCEPT !.op = "health", !.arg = status, !.out = "ok"])
  /\ UNCHANGED <<catalog, state, audit, codec, producers, registry, procs, pipeline, nextPid, fabric, nextFab, dev, cons, ws, task, active_ports>>

\* lines 388-395: restart_ingestion begins with stop_ingestion and swallows its error
restart_ingestion(c) ==
  /\ FreeSlot(c) /\ nops < MaxOps
  /\ nops' = nops + 1
  /\ StopLoad(c, [NoCall EXCEPT !.op = "stop", !.restart = TRUE])
  /\ UNCHANGED <<catalog, state, audit, codec, producers, registry, procs, pipeline, nextPid, fabric, nextFab, dev, cons, ws, task, active_ports>>

\* lines 397-413: after the sleep, start_ingestion in the same session
restart_start(c) ==
  /\ calls[c].pc = "rs_sleep"
  /\ StartLoad(c, calls[c])
  /\ UNCHANGED <<catalog, state, audit, codec, producers, registry, procs, pipeline, nextPid, fabric, nextFab, nops, dev, cons, ws, task, active_ports>>

(* ---------------- app/services/producer_service.py ---------------- *)
\* a new Producer row, by its mapped columns; updated_at "none" is NULL. The class maps no
\* closed_at column.
Producer(mediasoup_producer_id, ssrc) ==
  [state |-> "active", mediasoup_producer_id |-> mediasoup_producer_id, ssrc |-> ssrc, updated_at |-> "none"]

\* a create_producer without the READY check of lines 74-77
create_producer_NoCheck(c) ==
  /\ FreeSlot(c) /\ nops < MaxOps
  /\ nops' = nops + 1
  /\ IF catalog = "no_stream" \/ codec = 0
       THEN calls' = Put(c, [NoCall EXCEPT !.op = "create", !.out = "raised", !.arg = "check",
                                                        !.view = IF catalog = "no_stream" THEN "unloaded" ELSE state])
       ELSE calls' = Put(c, [NoCall EXCEPT !.op = "create", !.pc = "cp_fabric", !.view = state, !.ssrc = codec])
  /\ UNCHANGED <<catalog, state, audit, codec, producers, registry, procs, pipeline, nextPid, fabric, nextFab, dev, cons, ws, task, active_ports>>

\* lines 66-86: the select of create_producer, the READY check and the codec config check
create_producer(c) ==
  /\ FreeSlot(c) /\ nops < MaxOps
  /\ nops' = nops + 1
  /\ IF catalog = "no_stream" \/ state # "ready" \/ codec = 0
       THEN calls' = Put(c, [NoCall EXCEPT !.op = "create", !.out = "raised", !.arg = "check",
                                                        !.view = IF catalog = "no_stream" THEN "unloaded" ELSE state])
       ELSE calls' = Put(c, [NoCall EXCEPT !.op = "create", !.pc = "cp_fabric", !.view = state, !.ssrc = codec])
  /\ UNCHANGED <<catalog, state, audit, codec, producers, registry, procs, pipeline, nextPid, fabric, nextFab, dev, cons, ws, task, active_ports>>

\* lines 88-139: router, transport and producer are created in the fabric, or one of the calls fails
create_fabric(c) ==
  /\ calls[c].pc = "cp_fabric"
  /\ \/ /\ fabric' = fabric \cup {[id |-> nextFab, ssrc |-> calls[c].ssrc]}
        /\ nextFab' = nextFab + 1
        /\ calls' = Put(c, [calls[c] EXCEPT !.prod = nextFab, !.pc = "cp_commit"])
     \/ /\ calls' = Put(c, [calls[c] EXCEPT !.pc = "cp_fail", !.arg = "fabric"])
        /\ UNCHANGED <<fabric, nextFab>>
  /\ UNCHANGED <<catalog, state, audit, codec, producers, registry, procs, pipeline, nextPid, nops, dev, cons, ws, task, active_ports>>

\* a create_producer that commits the Producer row in a unit of work of its own
create_live_RowFirst(c) ==
  /\ calls[c].pc = "cp_commit"
  /\ producers' = Append(producers, Producer(calls[c].prod, calls[c].ssrc))
  /\ calls' = Put(c, [calls[c] EXCEPT !.pc = "cp_fail", !.arg = "refresh"])
  /\ UNCHANGED <<catalog, state, audit, codec, registry, procs, pipeline, nextPid, fabric, nextFab, nops, dev, cons, ws, task, active_ports>>

\* lines 141-189: add the ACTIVE Producer row to the session, transition to LIVE, commit, refresh,
\* return. One commit writes the row, the state and the audit row. A commit that fails rolls the
\* session back: the pending row is dropped and the Stream object is expired, so the except block
\* cannot read its state and the call raises with nothing stored. A refresh that fails after the
\* commit enters the except block with the committed LIVE state.
create_live(c) ==
  /\ calls[c].pc = "cp_commit"
  /\ IF is_valid_transition(calls[c].view, "live")
       THEN \/ /\ producers' = Append(producers, Producer(calls[c].prod, calls[c].ssrc))
               /\ state' = "live"
               /\ audit' = transition(audit, calls[c].view, "live", "producer")
               /\ calls' = Put(c, [Finish(c, "ok") EXCEPT !.view = "live"])
            \/ /\ producers' = Append(producers, Producer(calls[c].prod, calls[c].ssrc))
               /\ state' = "live"
               /\ audit' = transition(audit, calls[c].view, "live", "producer")
               /\ calls' = Put(c, [calls[c] EXCEPT !.view = "live", !.pc = "cp_fail", !.arg = "refresh"])
            \/ /\ calls' = Put(c, [Finish(c, "raised") EXCEPT !.arg = "commit"])
               /\ UNCHANGED <<producers, state, audit>>
       ELSE /\ calls' = Put(c, [calls[c] EXCEPT !.pc = "cp_fail", !.arg = "live"])
            /\ UNCHANGED <<producers, state, audit>>
  /\ UNCHANGED <<catalog, codec, registry, procs, pipeline, nextPid, fabric, nextFab, nops, dev, cons, ws, task, active_ports>>

\* lines 191-204: the except block: transition to ERROR, commit, raise; a Producer row that was
\* added to the session before a LIVE transition raised is written by this commit
create_failed(c) ==
  /\ calls[c].pc = "cp_fail"
  /\ IF is_valid_transition(calls[c].view, "error")
       THEN /\ state' = "error"
            /\ audit' = transition(audit, calls[c].view, "error", "failed")
            /\ producers' = IF calls[c].arg = "live"
                              THEN Append(producers, Producer(calls[c].prod, calls[c].ssrc))
                              ELSE producers
            /\ calls' = Put(c, [Finish(c, "raised") EXCEPT !.view = "error"])
       ELSE /\ calls' = Put(c, Finish(c, "raised"))
            /\ UNCHANGED <<state, audit, producers>>
  /\ UNCHANGED <<catalog, codec, registry, procs, pipeline, nextPid, fabric, nextFab, nops, dev, cons, ws, task, active_ports>>

\* lines 228-236: the select of close_producer; p = 0 is an identifier no row has
close_producer(c, p) ==
  /\ FreeSlot(c) /\ nops < MaxOps
  /\ nops' = nops + 1
  /\ IF p = 0
       THEN calls' = Put(c, [NoCall EXCEPT !.op = "close", !.out = "raised", !.arg = "load"])
       ELSE calls' = Put(c, [NoCall EXCEPT !.op = "close", !.pc = "cl_fabric", !.prod = p])
  /\ UNCHANGED <<catalog, state, audit, codec, producers, registry, procs, pipeline, nextPid, fabric, nextFab, dev, cons, ws, task, active_ports>>

\* lines 242-249: the fabric client calls of close_producer, in the order they are made
CloseOrder == <<"producer", "transport", "router">>

\* lines 238-249, 283-285: the first k of the three fabric calls succeed; when one fails the call
\* raises and what it closed stays closed
close_fabric(c) ==
  /\ calls[c].pc = "cl_fabric"
  /\ \E k \in 0..Len(CloseOrder) :
       LET done == SubSeq(CloseOrder, 1, k) IN
         /\ fabric' = IF \E i \in 1..k : done[i] = "producer"
                         THEN {f \in fabric : f.id # producers[calls[c].prod].mediasoup_producer_id}
                         ELSE fabric
         /\ calls' = Put(c, IF k = Len(CloseOrder)
                               THEN [calls[c] EXCEPT !.pc = "cl_stream", !.closed = done]
                               ELSE [Finish(c, "raised") EXCEPT !.arg = "fabric", !.closed = done])
  /\ UNCHANGED <<catalog, state, audit, codec, producers, registry, procs, pipeline, nextPid, nextFab, nops, dev, cons, ws, task, active_ports>>

\* lines 251-258: mark the Producer object CLOSED and select the owning stream
close_select_stream(c) ==
  /\ calls[c].pc = "cl_stream"
  /\ calls' = Put(c, [calls[c] EXCEPT !.view = Load(c), !.pc = "cl_commit"])
  /\ UNCHANGED <<catalog, state, audit, codec, producers, registry, procs, pipeline, nextPid, fabric, nextFab, nops, dev, cons, ws, task, active_ports>>

\* lines 252-281: the UPDATE of the commit writes the mapped attributes that changed: state, and
\* updated_at through onupdate; closed_at (line 253) is set on the Python object only.
\* A LIVE stream is moved to STOPPED in the same commit.
close_commit(c) ==
  /\ calls[c].pc = "cl_commit"
  /\ producers' = [producers EXCEPT ![calls[c].prod] = [@ EXCEPT !.state = "closed", !.updated_at = "set"]]
  /\ IF calls[c].view = "live"
       THEN /\ state' = "stopped"
            /\ audit' = transition(audit, calls[c].view, "stopped", "producer closed")
            /\ calls' = Put(c, [Finish(c, "ok") EXCEPT !.view = "stopped"])
       ELSE /\ calls' = Put(c, Finish(c, "ok"))
            /\ UNCHANGED <<state, audit>>
  /\ UNCHANGED <<catalog, codec, registry, procs, pipeline, nextPid, fabric, nextFab, nops, dev, cons, ws, task, active_ports>>

(* ---------------- the orchestrator ---------------- *)
Next ==
  \E c \in Slots :
    \/ start_ingestion(c)
    \/ start_initializing(c)
    \/ start_capture_ssrc(c)
    \/ start_spawn(c)
    \/ start_ready(c)
    \/ start_failed(c)
    \/ stop_ingestion(c)
    \/ stop_process(c)
    \/ stop_stopped(c)
    \/ get_ingestion_health(c)
    \/ restart_ingestion(c)
    \/ restart_start(c)
    \/ create_producer(c)
    \/ create_fabric(c)
    \/ create_live(c)
    \/ create_failed(c)
    \/ \E p \in 0..Len(producers) : close_producer(c, p)
    \/ close_fabric(c)
    \/ close_select_stream(c)
    \/ close_commit(c)

Spec == Init /\ [][Next]_vars

\* the service calls made one after the other: a call begins when the previous one has returned
NextSeq ==
  \/ start_ingestion(1)
  \/ start_initializing(1)
  \/ start_capture_ssrc(1)
  \/ start_spawn(1)
  \/ start_ready(1)
  \/ start_failed(1)
  \/ stop_ingestion(1)
  \/ stop_process(1)
  \/ stop_stopped(1)
  \/ get_ingestion_health(1)
  \/ restart_ingestion(1)
  \/ restart_start(1)
  \/ create_producer(1)
  \/ create_fabric(1)
  \/ create_live(1)
  \/ create_failed(1)
  \/ \E p \in 0..Len(producers) : close_producer(1, p)
  \/ close_fabric(1)
  \/ close_select_stream(1)
  \/ close_commit(1)

SpecSeq == Init /\ [][NextSeq]_vars

(* ---------------- the orchestrator and the state machine on a stream that has lived ---------------- *)
\* a caller of transition() that commits: it selects the stream, transitions it, commits
direct_transition(to_state) == FreeSlot(1) /\ Transition(to_state)

\* a stream after start_ingestion, create_producer and then either stop_ingestion (the producer
\* stays in the fabric and its row ACTIVE) or close_producer (both closed; the forwarding process
\* and the registry entry stay), or after a start_ingestion that failed at its capture
InitLived ==
  /\ catalog = "ok"
  /\ calls = [c \in Slots |-> NoCall]
  /\ nops = 0
  /\ dev = DevInit
  /\ cons = ConsInit
  /\ ws = WsInit
  /\ task = TaskInit
  /\ active_ports = NoPorts
  /\ \/ /\ state = "stopped" /\ codec = 1 /\ nextPid = 2 /\ nextFab = 2
        /\ \/ /\ audit = << StreamStateTransition("none", "initializing", "starting"),
                             StreamStateTransition("initializing", "ready", "started"),
                             StreamStateTransition("ready", "live", "producer"),
                             StreamStateTransition("live", "stopped", "stopped") >>
              /\ producers = << Producer(1, 1) >>
              /\ fabric = {[id |-> 1, ssrc |-> 1]}
              /\ registry = {} /\ procs = {} /\ pipeline = {}
           \/ /\ audit = << StreamStateTransition("none", "initializing", "starting"),
                             StreamStateTransition("initializing", "ready", "started"),
                             StreamStateTransition("ready", "live", "producer"),
                             StreamStateTransition("live", "stopped", "producer closed") >>
              /\ producers = << [Producer(1, 1) EXCEPT !.state = "closed", !.updated_at = "set"] >>
              /\ fabric = {}
              /\ registry = {1} /\ procs = {1} /\ pipeline = {1}
     \/ /\ state = "error" /\ codec = 0 /\ nextPid = 1 /\ nextFab = 1
        /\ audit = << StreamStateTransition("none", "initializing", "starting"),
                       StreamStateTransition("initializing", "error", "failed") >>
        /\ producers = << >> /\ fabric = {}
        /\ registry = {} /\ procs = {} /\ pipeline = {}

InitTerminal == Init \/ InitLived

NextTerminal ==
  \/ NextSeq
  \/ \E to_state \in StreamState : direct_transition(to_state)

SpecTerminal == InitTerminal /\ [][NextTerminal]_vars

(* ---------------- app/routes/devices.py, app/routes/ruth_ai_compat.py ---------------- *)
DevBusy(c) == dev.calls[c].pc # "done"
FreeDevSlot(c) == ~DevBusy(c) /\ \A d \in Slots : d < c => DevBusy(d)
\* the requests after request c became call: only the request that finished last keeps its outcome
DevPut(c, call) ==
  [d \in Slots |-> IF d = c THEN call
                   ELSE IF call.pc = "done" /\ dev.calls[d].pc = "done" THEN NoDevCall ELSE dev.calls[d]]
DevStep(c, call) == [dev EXCEPT !.calls = DevPut(c, call)]
DevGoto(c, pc) == [dev.calls[c] EXCEPT !.pc = pc]
DevRaise(c) == [NoDevCall EXCEPT !.route = dev.calls[c].route, !.out = "raised"]

\* OS processes matching the rtsp_url that exist before the device is started; some ignore SIGTERM
Orphans(n, stubborn) == {[pid |-> i, stubborn |-> (i \in stubborn)] : i \in 1..n}

InitDev ==
  /\ catalog = "ok" /\ state = "none" /\ audit = << >>
  /\ codec = 0 /\ producers = << >> /\ registry = {} /\ procs = {} /\ pipeline = {} /\ nextPid = 1
  /\ fabric = {} /\ nextFab = 1
  /\ calls = [c \in Slots |-> NoCall]
  /\ nops = 0
  /\ cons = ConsInit
  /\ ws = WsInit
  /\ task = TaskInit
  /\ active_ports = NoPorts
  /\ \E n \in 0..MaxOrphans : \E stubborn \in SUBSET (1..n) :
       dev = [DevInit EXCEPT !.procs = Orphans(n, stubborn), !.nextPid = n + 1]

\* a start route that refuses a request while another one for the stream is in flight
start_device_stream_Locked(c, route) ==
  /\ FreeDevSlot(c) /\ dev.nstarts < MaxDevStarts
  /\ dev' = [dev EXCEPT !.nstarts = @ + 1,
                         !.calls[c] = IF \E d \in Slots : DevBusy(d)
                                        THEN [NoDevCall EXCEPT !.route = route, !.out = "raised"]
                                        ELSE [NoDevCall EXCEPT !.route = route,
                                                               !.pc = IF dev.active # {} THEN "d_get" ELSE "d_scan"]]
  /\ UNCHANGED <<orchVars, cons, ws, task, active_ports>>

\* devices.py lines 93-113, ruth_ai_compat.py lines 157-181: the request begins; is the stream tracked as active?
start_device_stream(c, route) ==
  /\ FreeDevSlot(c) /\ dev.nstarts < MaxDevStarts
  /\ dev' = [dev EXCEPT !.nstarts = @ + 1,
                         !.calls[c] = [NoDevCall EXCEPT !.route = route,
                                                        !.pc = IF dev.active # {} THEN "d_get" ELSE "d_scan"]]
  /\ UNCHANGED <<orchVars, cons, ws, task, active_ports>>

\* devices.py lines 115-138: get_producers; a non-empty answer is returned as the running stream,
\* an empty answer falls through, an error stops the tracked stream first
dev_get_producers(c) ==
  /\ dev.calls[c].pc = "d_get"
  /\ \/ dev' = DevStep(c, IF dev.producers # << >>
                              THEN [dev.calls[c] EXCEPT !.pc = "done", !.out = "ok", !.reconnect = TRUE,
                                                        !.ret_transport = 0,
                                                        !.ret_producer = dev.producers[Len(dev.producers)]]
                              ELSE DevGoto(c, "d_scan"))
     \/ dev' = DevStep(c, DevGoto(c, "d_stop"))
  /\ UNCHANGED <<orchVars, cons, ws, task, active_ports>>

\* rtsp_pipeline.stop_stream(room_id): stops the tracked process and drops the registry entry
StopTracked(d) ==
  [d EXCEPT !.procs = {q \in d.procs : q.pid \notin {a.pid : a \in d.active}}, !.active = {}]

\* devices.py line 138
dev_stop_tracked(c) ==
  /\ dev.calls[c].pc = "d_stop"
  /\ dev' = [StopTracked(dev) EXCEPT !.calls[c] = DevGoto(c, "d_scan")]
  /\ UNCHANGED <<orchVars, cons, ws, task, active_ports>>

\* devices.py lines 140-161, ruth_ai_compat.py lines 213-233: pgrep, SIGTERM to every match, sleep;
\* an error of pgrep is logged and the cleanup is skipped. The compat route has no second pass.
dev_kill_orphans(c) ==
  /\ dev.calls[c].pc = "d_scan"
  /\ \/ dev' = [dev EXCEPT !.procs = {q \in dev.procs : q.stubborn},
                            !.calls[c] = DevGoto(c, IF dev.procs # {} /\ dev.calls[c].route = "devices"
                                                      THEN "d_rescan" ELSE "d_transport")]
     \/ dev' = DevStep(c, DevGoto(c, "d_transport"))
  /\ UNCHANGED <<orchVars, cons, ws, task, active_ports>>

\* devices.py lines 163-181: pgrep again, SIGKILL to every survivor, sleep
dev_kill_survivors(c) ==
  /\ dev.calls[c].pc = "d_rescan"
  /\ \/ dev' = [dev EXCEPT !.procs = {}, !.calls[c] = DevGoto(c, "d_transport")]
     \/ dev' = DevStep(c, DevGoto(c, "d_transport"))
  /\ UNCHANGED <<orchVars, cons, ws, task, active_ports>>

\* devices.py lines 183-196: create_plain_rtp_transport
dev_create_transport(c) ==
  /\ dev.calls[c].pc = "d_transport"
  /\ \/ dev' = [dev EXCEPT !.transports = @ \cup {dev.nextId}, !.nextId = @ + 1,
                            !.calls[c] = [dev.calls[c] EXCEPT !.pc = "d_probe", !.transport = dev.nextId]]
     \/ dev' = DevStep(c, DevRaise(c))
  /\ UNCHANGED <<orchVars, cons, ws, task, active_ports>>

\* devices.py lines 198-209: capture the ssrc, fail when none is detected
dev_capture_ssrc(c) ==
  /\ dev.calls[c].pc = "d_probe"
  /\ \E r \in ProbeResults :
       dev' = DevStep(c, IF r = 0 THEN DevRaise(c) ELSE [dev.calls[c] EXCEPT !.pc = "d_cleanup", !.ssrc = r])
  /\ UNCHANGED <<orchVars, cons, ws, task, active_ports>>

\* devices.py lines 228-240: close the old producers of the room; a failed close is logged and skipped
dev_close_old_producers(c) ==
  /\ dev.calls[c].pc = "d_cleanup"
  /\ \E kept \in SUBSET {dev.producers[i] : i \in 1..Len(dev.producers)} :
       dev' = [dev EXCEPT !.producers = SelectSeq(dev.producers, LAMBDA x : x \in kept),
                          !.calls[c] = DevGoto(c, "d_produce")]
  /\ UNCHANGED <<orchVars, cons, ws, task, active_ports>>

\* devices.py lines 242-246: create the producer with the captured ssrc
dev_create_producer(c) ==
  /\ dev.calls[c].pc = "d_produce"
  /\ \/ dev' = [dev EXCEPT !.producers = Append(@, dev.nextId), !.nextId = @ + 1,
                            !.calls[c] = [dev.calls[c] EXCEPT !.pc = "d_spawn", !.producer = dev.nextId]]
     \/ dev' = DevStep(c, DevRaise(c))
  /\ UNCHANGED <<orchVars, cons, ws, task, active_ports>>

\* devices.py lines 248-287: rtsp_pipeline.start_stream spawns the forwarding process and tracks it;
\* an error result or an exception fails the request
dev_spawn(c) ==
  /\ dev.calls[c].pc = "d_spawn"
  /\ \/ dev' = [dev EXCEPT !.procs = @ \cup {[pid |-> dev.nextPid, stubborn |-> FALSE]},
                            !.nextPid = @ + 1,
                            !.active = {[pid |-> dev.nextPid]},
                            !.started = [transport |-> dev.calls[c].transport, producer |-> dev.calls[c].producer],
                            !.calls = DevPut(c, [dev.calls[c] EXCEPT !.pc = "done", !.out = "ok",
                                                                     !.ret_transport = dev.calls[c].transport,
                                                                     !.ret_producer = dev.calls[c].producer])]
     \/ dev' = DevStep(c, DevRaise(c))
  /\ UNCHANGED <<orchVars, cons, ws, task, active_ports>>

\* devices.py lines 290-331: stop_device_stream
stop_device_stream ==
  /\ dev.active # {}
  /\ dev' = StopTracked(dev)
  /\ UNCHANGED <<orchVars, cons, ws, task, active_ports>>

NextDev ==
  \/ \E c \in Slots :
       \/ \E route \in {"devices", "compat"} : start_device_stream(c, route)
       \/ dev_get_producers(c)
       \/ dev_stop_tracked(c)
       \/ dev_kill_orphans(c)
       \/ dev_kill_survivors(c)
       \/ dev_create_transport(c)
       \/ dev_capture_ssrc(c)
       \/ dev_close_old_producers(c)
       \/ dev_create_producer(c)
       \/ dev_spawn(c)
  \/ stop_device_stream

SpecDev == InitDev /\ [][NextDev]_vars

(* ---------------- app/services/consumer_service.py ---------------- *)
ConsBusy(c) == cons.calls[c].pc # "done"
FreeConsSlot(c) == ~ConsBusy(c) /\ \A d \in Slots : d < c => ConsBusy(d)
\* the calls after call c became call: only the call that finished last keeps its outcome
ConsPut(c, call) ==
  [d \in Slots |-> IF d = c THEN call
                   ELSE IF call.pc = "done" /\ cons.calls[d].pc = "done" THEN NoConsCall ELSE cons.calls[d]]
\* what stays of a call that returned: the operation, its consumer and its outcome
ConsDone(call, out) == [NoConsCall EXCEPT !.op = call.op, !.id = call.id, !.out = out]
\* lines 105-106, 385-386: ValueError for an id that matches no row; nothing was assigned, nothing is committed
ConsNotFound(op, id) == [NoConsCall EXCEPT !.op = op, !.id = id, !.out = "not_found"]

\* the reasons an administrator gives
CloseReasons == {"admin"}
OpenStates == {"connecting", "connected"}

\* the rows of the model before the first call: consumers in any state, created at time 0
InitCons ==
  /\ catalog = "ok" /\ state = "none" /\ audit = << >>
  /\ codec = 0 /\ producers = << >> /\ registry = {} /\ procs = {} /\ pipeline = {} /\ nextPid = 1
  /\ fabric = {} /\ nextFab = 1
  /\ calls = [c \in Slots |-> NoCall]
  /\ nops = 0
  /\ dev = DevInit
  /\ \E r \in [ConsumerIds -> {Consumer(st) : st \in ConsumerState}] :
       cons = [ConsInit EXCEPT !.rows = r]
  /\ ws = WsInit
  /\ task = TaskInit
  /\ active_ports = NoPorts

\* datetime.now(timezone.utc) moves on
Tick ==
  /\ \E t \in ClockValues : t > cons.now /\ cons' = [cons EXCEPT !.now = t]
  /\ UNCHANGED <<orchVars, dev, ws, task, active_ports>>

\* a heartbeat that stamps every consumer when its own is unknown
record_heartbeat_TouchAll(c, id) ==
  /\ FreeConsSlot(c) /\ cons.ncalls < MaxConsCalls
  /\ cons.now + heartbeat_timeout_seconds < MaxClock
  /\ cons' = [cons EXCEPT !.ncalls = @ + 1,
                          !.rows = IF id \in ConsumerIds THEN @
                                   ELSE [i \in ConsumerIds |-> [@[i] EXCEPT !.last_seen_at = cons.now]],
                          !.calls = ConsPut(c,
                IF id \in ConsumerIds
                  THEN [NoConsCall EXCEPT !.op = "heartbeat", !.pc = "hb_commit", !.id = id, !.t = cons.now]
                  ELSE ConsNotFound("heartbeat", id))]
  /\ UNCHANGED <<orchVars, dev, ws, task, active_ports>>

\* lines 100-109: select the consumer, fail when there is none, assign the clock to last_seen_at
record_heartbeat(c, id) ==
  /\ FreeConsSlot(c) /\ cons.ncalls < MaxConsCalls
  /\ cons.now + heartbeat_timeout_seconds < MaxClock
  /\ cons' = [cons EXCEPT !.ncalls = @ + 1, !.calls = ConsPut(c,
                IF id \in ConsumerIds
                  THEN [NoConsCall EXCEPT !.op = "heartbeat", !.pc = "hb_commit", !.id = id, !.t = cons.now]
                  ELSE ConsNotFound("heartbeat", id))]
  /\ UNCHANGED <<orchVars, dev, ws, task, active_ports>>

\* a heartbeat that brings its consumer back to CONNECTED
heartbeat_commit_Reconnects(c) ==
  /\ cons.calls[c].pc = "hb_commit"
  /\ cons' = [cons EXCEPT !.rows[cons.calls[c].id] = [@ EXCEPT !.last_seen_at = cons.calls[c].t,
                                                               !.state = "connected"],
                          !.calls = ConsPut(c, ConsDone(cons.calls[c], "ok"))]
  /\ UNCHANGED <<orchVars, dev, ws, task, active_ports>>

\* lines 110-118: the commit writes the one attribute the call assigned
heartbeat_commit(c) ==
  /\ cons.calls[c].pc = "hb_commit"
  /\ cons' = [cons EXCEPT !.rows[cons.calls[c].id].last_seen_at = cons.calls[c].t,
                          !.calls = ConsPut(c, ConsDone(cons.calls[c], "ok"))]
  /\ UNCHANGED <<orchVars, dev, ws, task, active_ports>>

\* a forced close that does not record its reason
force_close_consumer_NoReason(c, id, reason) ==
  /\ FreeConsSlot(c) /\ cons.ncalls < MaxConsCalls
  /\ cons' = [cons EXCEPT !.ncalls = @ + 1, !.calls = ConsPut(c,
                IF id \in ConsumerIds
                  THEN [NoConsCall EXCEPT !.op = "force_close", !.pc = "fc_commit", !.id = id,
                                          !.t = cons.now, !.reason = reason,
                                          !.meta = [cons.rows[id].metadata EXCEPT !.force_closed = TRUE]]
                  ELSE ConsNotFound("force_close", id))]
  /\ UNCHANGED <<orchVars, dev, ws, task, active_ports>>

\* lines 380-399: select the consumer, fail when there is none, assign state, closed_at and the reason
force_close_consumer(c, id, reason) ==
  /\ FreeConsSlot(c) /\ cons.ncalls < MaxConsCalls
  /\ cons' = [cons EXCEPT !.ncalls = @ + 1, !.calls = ConsPut(c,
                IF id \in ConsumerIds
                  THEN [NoConsCall EXCEPT !.op = "force_close", !.pc = "fc_commit", !.id = id,
                                          !.t = cons.now, !.reason = reason,
                                          !.meta = [cons.rows[id].metadata EXCEPT !.force_closed = TRUE,
                                                                                  !.close_reason = reason]]
                  ELSE ConsNotFound("force_close", id))]
  /\ UNCHANGED <<orchVars, dev, ws, task, active_ports>>

\* lines 401-408: the commit writes state, closed_at and metadata
force_close_commit(c) ==
  /\ cons.calls[c].pc = "fc_commit"
  /\ cons' = [cons EXCEPT !.rows[cons.calls[c].id] = [@ EXCEPT !.state = "closed",
                                                               !.closed_at = cons.calls[c].t,
                                                               !.metadata = cons.calls[c].meta],
                          !.calls = ConsPut(c, ConsDone(cons.calls[c], "ok"))]
  /\ UNCHANGED <<orchVars, dev, ws, task, active_ports>>

\* lines 40-67: start_cleanup_task creates the loop unless one exists
start_cleanup_task ==
  /\ cons.sweep.pc = "off"
  /\ cons' = [cons EXCEPT !.sweep.pc = "sleep"]
  /\ UNCHANGED <<orchVars, dev, ws, task, active_ports>>

\* the rows after the pass in flight has committed
SweepWritten ==
  [id \in ConsumerIds |->
     IF id \in cons.sweep.stale
       THEN [cons.rows[id] EXCEPT !.state = "closed", !.closed_at = cons.sweep.t,
                                  !.metadata = cons.sweep.meta[id]]
       ELSE cons.rows[id]]

\* the task back in its sleep, the session of the pass gone
SweepAsleep(sw) == [NoSweep EXCEPT !.pc = "sleep", !.errors = sw.errors]

\* lines 69-78: stop_cleanup_task cancels the loop at its await; a commit in flight lands or does not
stop_cleanup_task ==
  /\ cons.sweep.pc # "off"
  /\ \/ cons' = [cons EXCEPT !.sweep = [NoSweep EXCEPT !.errors = cons.sweep.errors]]
     \/ /\ cons.sweep.pc = "commit"
        /\ cons' = [cons EXCEPT !.rows = SweepWritten,
                                !.sweep = [NoSweep EXCEPT !.errors = cons.sweep.errors]]
  /\ UNCHANGED <<orchVars, dev, ws, task, active_ports>>

\* a pass that also selects the consumers last seen exactly the timeout ago
StaleConsumers_Inclusive(rows, now) ==
  {id \in ConsumerIds : /\ rows[id].state \in OpenStates
                        /\ rows[id].last_seen_at <= now - heartbeat_timeout_seconds}

\* lines 138-151: the consumers the stale query returns at time now
StaleConsumers(rows, now) ==
  {id \in ConsumerIds : /\ rows[id].state \in OpenStates
                        /\ rows[id].last_seen_at < now - heartbeat_timeout_seconds}

\* lines 55-58, 138-176: the loop wakes and runs a pass: the query, then state, closed_at and the
\* reason are assigned to every consumer it returned; without stale consumer the pass returns
\* without commit; an exception of the query is logged by the loop; the body of the for loop
\* (lines 155-176) has no try: an exception while one consumer is processed leaves the pass
\* before the commit of line 179, the session is closed with nothing written, the loop logs
cleanup_stale_consumers ==
  /\ cons.sweep.pc = "sleep"
  /\ \/ LET stale == StaleConsumers(cons.rows, cons.now) IN
          cons' = [cons EXCEPT !.sweep =
                     IF stale = {} THEN cons.sweep
                     ELSE [cons.sweep EXCEPT
                             !.pc = "commit", !.stale = stale, !.t = cons.now,
                             !.meta = [id \in ConsumerIds |->
                                         IF id \in stale
                                           THEN [cons.rows[id].metadata EXCEPT !.cleanup_reason = "heartbeat_timeout"]
                                           ELSE NoMeta]]]
     \/ /\ cons.sweep.errors < MaxSweepErrors
        /\ cons' = [cons EXCEPT !.sweep = SweepAsleep([cons.sweep EXCEPT !.errors = @ + 1])]
     \/ /\ cons.sweep.errors < MaxSweepErrors
        /\ \E id \in StaleConsumers(cons.rows, cons.now) :
             cons' = [cons EXCEPT !.sweep = [SweepAsleep([cons.sweep EXCEPT !.errors = @ + 1])
                                               EXCEPT !.failed = id]]
  /\ UNCHANGED <<orchVars, dev, ws, task, active_ports>>

\* a loop that ends with the first exception of a pass
cleanup_commit_LoopDies ==
  /\ cons.sweep.pc = "commit"
  /\ \/ cons' = [cons EXCEPT !.rows = SweepWritten, !.sweep = SweepAsleep(cons.sweep)]
     \/ /\ cons.sweep.errors < MaxSweepErrors
        /\ cons' = [cons EXCEPT !.sweep = [NoSweep EXCEPT !.pc = "dead", !.errors = cons.sweep.errors + 1]]
  /\ UNCHANGED <<orchVars, dev, ws, task, active_ports>>

\* lines 178-186, 63-64: one commit for the pass; an exception of the commit is logged by the loop
cleanup_commit ==
  /\ cons.sweep.pc = "commit"
  /\ \/ cons' = [cons EXCEPT !.rows = SweepWritten, !.sweep = SweepAsleep(cons.sweep)]
     \/ /\ cons.sweep.errors < MaxSweepErrors
        /\ cons' = [cons EXCEPT !.sweep = SweepAsleep([cons.sweep EXCEPT !.errors = @ + 1])]
  /\ UNCHANGED <<orchVars, dev, ws, task, active_ports>>

NextCons ==
  \/ Tick
  \/ \E c \in Slots, id \in 0..MaxConsumers : record_heartbeat(c, id)
  \/ \E c \in Slots : heartbeat_commit(c)
  \/ \E c \in Slots, id \in 0..MaxConsumers, reason \in CloseReasons : force_close_consumer(c, id, reason)
  \/ \E c \in Slots : force_close_commit(c)
  \/ start_cleanup_task
  \/ stop_cleanup_task
  \/ cleanup_stale_consumers
  \/ cleanup_commit

SpecCons == InitCons /\ [][NextCons]_vars

(* ---------------- app/services/consumer_service.py: the sweep task and its handle ---------------- *)
\* line 20, 38: one service object, cleanup_task None, no task created
InitTask ==
  /\ catalog = "ok" /\ state = "none" /\ audit = << >>
  /\ codec = 0 /\ producers = << >> /\ registry = {} /\ procs = {} /\ pipeline = {} /\ nextPid = 1
  /\ fabric = {} /\ nextFab = 1
  /\ calls = [c \in Slots |-> NoCall]
  /\ nops = 0
  /\ dev = DevInit
  /\ cons = ConsInit
  /\ ws = WsInit
  /\ task = TaskInit
  /\ active_ports = NoPorts

\* lines 47-67: start_cleanup_task returns when the handle is set; otherwise it creates a task
\* and stores it in the handle; the coroutine has no await, so the call is one step
create_cleanup_task ==
  /\ IF task.handle # 0
       THEN task' = [task EXCEPT !.ret = "already"]
       ELSE /\ task.next <= MaxTasks
            /\ task' = [task EXCEPT !.handle = task.next, !.running = @ \cup {task.next},
                                    !.next = @ + 1, !.ret = "started"]
  /\ UNCHANGED <<orchVars, dev, cons, ws, active_ports>>

\* lines 71-74: stop_cleanup_task does nothing without a handle; otherwise it calls cancel() on
\* the task of the handle and awaits it; a task that has finished already is awaited without
\* suspension, and line 77 follows in the same step
cancel_cleanup_task(c) ==
  /\ task.stops[c] = 0 /\ task.nstops < MaxStops
  /\ task' = IF task.handle = 0
               THEN [task EXCEPT !.nstops = @ + 1, !.ret = "nothing"]
             ELSE IF task.handle \notin task.running
               THEN [task EXCEPT !.nstops = @ + 1, !.handle = 0, !.ret = "stopped"]
             ELSE [task EXCEPT !.nstops = @ + 1, !.cancelled = @ \cup {task.handle},
                               !.stops[c] = task.handle]
  /\ UNCHANGED <<orchVars, dev, cons, ws, active_ports>>

\* lines 53-58: a task that is not cancelled wakes from its sleep and runs a pass
cleanup_loop_pass(t) ==
  /\ t \in task.running \ task.cancelled
  /\ t \notin task.swept
  /\ task' = [task EXCEPT !.swept = @ \cup {t}]
  /\ UNCHANGED <<orchVars, dev, cons, ws, active_ports>>

\* lines 60-62: the cancelled task gets CancelledError at its await, leaves the loop and finishes
cleanup_loop_cancelled(t) ==
  /\ t \in task.running \cap task.cancelled
  /\ task' = [task EXCEPT !.running = @ \ {t}]
  /\ UNCHANGED <<orchVars, dev, cons, ws, active_ports>>

\* lines 74-78: the awaited task has finished: stop_cleanup_task resumes, sets the handle to
\* None and returns
stop_cleanup_return(c) ==
  /\ task.stops[c] # 0 /\ task.stops[c] \notin task.running
  /\ task' = [task EXCEPT !.handle = 0, !.stops[c] = 0, !.ret = "stopped"]
  /\ UNCHANGED <<orchVars, dev, cons, ws, active_ports>>

NextTask ==
  \/ create_cleanup_task
  \/ \E c \in Slots : cancel_cleanup_task(c)
  \/ \E t \in 1..MaxTasks : cleanup_loop_pass(t)
  \/ \E t \in 1..MaxTasks : cleanup_loop_cancelled(t)
  \/ \E c \in Slots : stop_cleanup_return(c)

SpecTask == InitTask /\ [][NextTask]_vars

(* ---------------- app/services/stream_ingestion_service.py: the port of a stream ---------------- *)
\* line 117: mediasoup_video_port = 10000 + (ssrc % 50000)
mediasoup_video_port(ssrc) == 10000 + (ssrc % 50000)

InitPorts ==
  /\ catalog = "ok" /\ state = "none" /\ audit = << >>
  /\ codec = 0 /\ producers = << >> /\ registry = {} /\ procs = {} /\ pipeline = {} /\ nextPid = 1
  /\ fabric = {} /\ nextFab = 1
  /\ calls = [c \in Slots |-> NoCall]
  /\ nops = 0
  /\ dev = DevInit
  /\ cons = ConsInit
  /\ ws = WsInit
  /\ task = TaskInit
  /\ active_ports = NoPorts

\* lines 107-139: a start_ingestion of a stream without entry captures an ssrc, computes the
\* port, starts the forwarding process on it and stores both in active_processes
start_on_port(stream_id, ssrc) ==
  /\ active_ports.nops < MaxPortOps
  /\ active_ports.entries[stream_id] = NoEntry
  /\ active_ports' = [active_ports EXCEPT !.nops = @ + 1,
         !.entries[stream_id] = [ssrc |-> ssrc, rtp_port |-> mediasoup_video_port(ssrc)]]
  /\ UNCHANGED <<orchVars, dev, cons, ws, task>>

\* lines 240-242: a stop_ingestion deletes the entry of the stream
stop_on_port(stream_id) ==
  /\ active_ports.nops < MaxPortOps
  /\ active_ports.entries[stream_id] # NoEntry
  /\ active_ports' = [active_ports EXCEPT !.nops = @ + 1, !.entries[stream_id] = NoEntry]
  /\ UNCHANGED <<orchVars, dev, cons, ws, task>>

NextPorts ==
  \/ \E stream_id \in StreamIds, ssrc \in SsrcValues : start_on_port(stream_id, ssrc)
  \/ \E stream_id \in StreamIds : stop_on_port(stream_id)

SpecPorts == InitPorts /\ [][NextPorts]_vars

(* ---------------- app/services/websocket_manager.py ---------------- *)
\* d[k] = v
DictSet(d, k, v) == [x \in DOMAIN d \cup {k} |-> IF x = k THEN v ELSE d[x]]
\* del d[k]
DictDel(d, k) == [x \in DOMAIN d \ {k} |-> d[x]]
\* d.get(k, default)
DictGet(d, k, default) == IF k \in DOMAIN d THEN d[k] ELSE default

\* lines 140-150: the members of the room of a stream
RoomConnections(rooms, stream_id) == DictGet(rooms, stream_id, {})

\* lines 31-64: add_connection stores the connection info, adds the id to the room of the
\* stream (created when missing) and records the stream as the room of the connection
add_connection(connection_id, stream_id) ==
  /\ ws.nops < MaxWsOps
  /\ ws' = [ws EXCEPT
              !.connections = DictSet(@, connection_id, stream_id),
              !.stream_rooms = DictSet(@, stream_id, RoomConnections(@, stream_id) \cup {connection_id}),
              !.connection_rooms = DictSet(@, connection_id, stream_id),
              !.latest[connection_id] = stream_id,
              !.nops = @ + 1]
  /\ UNCHANGED <<orchVars, dev, cons, task, active_ports>>

\* lines 66-92: remove_connection returns False for an unknown id; otherwise it discards the id
\* from the room recorded for the connection, deletes the room when it is empty, and deletes
\* the connection
remove_connection(connection_id) ==
  /\ ws.nops < MaxWsOps
  /\ IF connection_id \notin DOMAIN ws.connections
       THEN ws' = [ws EXCEPT !.nops = @ + 1]
       ELSE LET stream_id == ws.connection_rooms[connection_id]
                members == RoomConnections(ws.stream_rooms, stream_id) \ {connection_id}
            IN ws' = [ws EXCEPT
                        !.stream_rooms = IF connection_id \notin DOMAIN ws.connection_rooms
                                              \/ stream_id \notin DOMAIN @ THEN @
                                         ELSE IF members = {} THEN DictDel(@, stream_id)
                                         ELSE DictSet(@, stream_id, members),
                        !.connection_rooms = DictDel(@, connection_id),
                        !.connections = DictDel(@, connection_id),
                        !.latest[connection_id] = 0,
                        !.nops = @ + 1]
  /\ UNCHANGED <<orchVars, dev, cons, task, active_ports>>

\* lines 140-150: get_room_connections returns the members of the room, or nothing
get_room_connections(stream_id) ==
  /\ ws.nops < MaxWsOps
  /\ ws' = [ws EXCEPT !.ret = RoomConnections(ws.stream_rooms, stream_id), !.nops = @ + 1]
  /\ UNCHANGED <<orchVars, dev, cons, task, active_ports>>

InitWs ==
  /\ catalog = "ok" /\ state = "none" /\ audit = << >>
  /\ codec = 0 /\ producers = << >> /\ registry = {} /\ procs = {} /\ pipeline = {} /\ nextPid = 1
  /\ fabric = {} /\ nextFab = 1
  /\ calls = [c \in Slots |-> NoCall]
  /\ nops = 0
  /\ dev = DevInit
  /\ cons = ConsInit
  /\ ws = WsInit
  /\ task = TaskInit
  /\ active_ports = NoPorts

NextWs ==
  \/ \E connection_id \in ConnectionIds, stream_id \in RoomIds : add_connection(connection_id, stream_id)
  \/ \E connection_id \in ConnectionIds : remove_connection(connection_id)
  \/ \E stream_id \in RoomIds : get_room_connections(stream_id)

SpecWs == InitWs /\ [][NextWs]_vars

NextFSM == \E to_state \in StreamState : Transition(to_state)

SpecFSM == InitFSM /\ [][NextFSM]_vars

(* ======================= properties ======================= *)
\* the adjacency table of the stream state machine, as pairs
AdjacencyTable ==
  { <<"none", "initializing">>,
    <<"initializing", "ready">>, <<"initializing", "error">>,
    <<"ready", "live">>, <<"ready", "error">>,
    <<"live", "error">>, <<"live", "stopped">>,
    <<"error", "live">>, <<"error", "stopped">>, <<"error", "closed">>,
    <<"stopped", "live">>, <<"stopped", "closed">> }

Last(seq) == seq[Len(seq)]

\* steps that fail because of the camera, the OS or the fabric, not because of the service's own logic
ExternalFailures == {"probe", "spawn", "fabric"}

C2_StoredChangesAreEdges ==
  [][state' # state => (<<state, state'>> \in AdjacencyTable /\ state' \in StreamState)]_vars

C4_AtMostOneActiveProducer ==
  Cardinality({i \in 1..Len(producers) : producers[i].state = "active"}) <= 1

\* C5: start on a provisioned stream whose camera has a source URI, no step failing, succeeds
\* and appends INITIALIZING then READY (LIVE follows with the producer).
C5_StartYieldsInitReadyLive ==
  \A c \in Slots :
    (calls[c].op = "start" /\ calls[c].pc = "done" /\ ~calls[c].restart /\ nops = 1
       /\ catalog = "ok" /\ calls[c].arg \notin ExternalFailures)
    => /\ calls[c].out = "ok"
       /\ state = "ready"
       /\ Len(audit) >= 2
       /\ audit[Len(audit) - 1].to_state = "initializing"
       /\ Last(audit).to_state = "ready"

\* C6: a start of a stream that start and stop left STOPPED succeeds: it is not refused.
C6_StartAfterStopSucceeds ==
  \A c \in Slots :
    (calls[c].op = "start" /\ calls[c].pc = "done" /\ calls[c].view = "stopped"
       /\ catalog = "ok" /\ calls[c].arg \notin ExternalFailures)
    => calls[c].out = "ok"

\* C9: when the forwarding process is spawned, the fabric already has a producer that
\* declares the captured ssrc.
C9_ProducerBeforeProcess ==
  [][\A c \in Slots :
       (calls[c].pc = "si_spawn" /\ calls'[c].pc = "si_ready" /\ calls'[c].pid # 0)
       => \E f \in fabric : f.ssrc = calls[c].ssrc]_vars

\* C10: a start that fails after the stream and the source URI were loaded leaves the stream
\* in ERROR with an audit row carrying the reason, and the caller gets the error.
C10_StartFailureEndsInError ==
  [][\A c \in Slots :
       (calls[c].op = "start" /\ calls[c].pc \in {"si_init", "si_fail"}
          /\ calls'[c].pc = "done" /\ calls'[c].out = "raised")
       => (state' = "error" /\ audit' # << >> /\ Last(audit').to_state = "error"
             /\ Last(audit').reason = "failed")]_vars

\* C7: a start of a stream that is tracked as active and whose producer is in the fabric
\* returns the producer and the transport the starting call returned, and changes nothing.
C7_ReconnectReturnsSameDescriptors ==
  [][\A c \in Slots :
       (dev.calls[c].pc = "d_get" /\ dev'.calls[c].pc = "done" /\ dev'.calls[c].out = "ok"
          /\ \E i \in 1..Len(dev.producers) : dev.producers[i] = dev.started.producer)
       => /\ dev'.calls[c].ret_producer = dev.started.producer
          /\ dev'.calls[c].ret_transport = dev.started.transport
          /\ dev'.procs = dev.procs /\ dev'.transports = dev.transports
          /\ dev'.producers = dev.producers /\ dev'.active = dev.active]_vars

\* C8: when a start completes successfully, exactly one process referencing the source URI
\* runs: the one it spawned.
C8_OneProcessAfterStart ==
  [][\A c \in Slots :
       (dev.calls[c].pc = "d_spawn" /\ dev'.calls[c].pc = "done" /\ dev'.calls[c].out = "ok")
       => dev'.procs = {[pid |-> dev.nextPid, stubborn |-> FALSE]}]_vars

\* C11: a start that fails after it created a fabric transport or producer has closed them
\* when it returns.
C11_StartFailureRollsBack ==
  [][\A c \in Slots :
       (dev.calls[c].pc # "done" /\ dev'.calls[c].pc = "done" /\ dev'.calls[c].out = "raised")
       => /\ dev.calls[c].transport # 0 => dev.calls[c].transport \notin dev'.transports
          /\ dev.calls[c].producer # 0
               => \A i \in 1..Len(dev'.producers) : dev'.producers[i] # dev.calls[c].producer]_vars

\* C12: stop on a stream that is already STOPPED returns without raising, leaves the state
\* STOPPED and leaves the registry without an entry.
C12_StopIsIdempotent ==
  [][\A c \in Slots :
       (calls[c].pc = "st_commit" /\ calls[c].view = "stopped" /\ ~calls[c].restart
          /\ calls'[c].pc = "done")
       => (calls'[c].out = "ok" /\ state' = "stopped" /\ registry' = {})]_vars

\* C13: when a stop of a LIVE stream returns successfully, the process the registry recorded
\* for the stream no longer runs, the state is STOPPED with LIVE->STOPPED as the newest audit
\* row, and the registry has no entry (so that health reports not_running).
C13_StopStopsProcess ==
  [][\A c \in Slots :
       (calls[c].pc = "st_commit" /\ calls[c].view = "live" /\ ~calls[c].restart
          /\ calls'[c].pc = "done" /\ calls'[c].out = "ok")
       => /\ state' = "stopped"
          /\ Last(audit') = StreamStateTransition("live", "stopped", "stopped")
          /\ Len(audit') = Len(audit) + 1
          /\ registry' = {}
          /\ registry \cap procs' = {}]_vars

C13_Witness ==
  \E c \in Slots :
    /\ calls[c].op = "stop" /\ calls[c].pc = "done" /\ calls[c].out = "ok"
    /\ state = "stopped" /\ registry = {} /\ procs = {} /\ nextPid > 1
    /\ Last(audit).from_state = "live"

\* C14 as stated: health reports not_running exactly without registry entry, process_dead or
\* process_not_found exactly for an entry whose process is gone, running exactly for an entry
\* whose process is alive, no other status, and it leaves the registry alone.
C14_HealthFourStatuses ==
  [][\A c \in Slots :
       (FreeSlot(c) /\ calls'[c].op = "health" /\ nops' = nops + 1)
       => /\ calls'[c].arg \in {"not_running", "process_dead", "process_not_found", "running"}
          /\ calls'[c].arg = "not_running" <=> registry = {}
          /\ calls'[c].arg \in {"process_dead", "process_not_found"}
               <=> (registry # {} /\ ~(registry \subseteq procs))
          /\ calls'[c].arg = "running" <=> (registry # {} /\ registry \subseteq procs)
          /\ registry' = registry]_vars

\* C14 amended: health reports not_running exactly without registry entry, no_pid exactly for an
\* entry without pid, process_dead or process_not_found only for an entry whose process is gone,
\* running only for an entry whose process is alive, error only for an entry with a pid, no
\* other status, and it leaves the registry alone.
C14_HealthSixStatuses ==
  [][\A c \in Slots :
       (FreeSlot(c) /\ calls'[c].op = "health" /\ nops' = nops + 1)
       => /\ calls'[c].arg \in {"not_running", "no_pid", "process_dead", "process_not_found",
                                "running", "error"}
          /\ calls'[c].arg = "not_running" <=> registry = {}
          /\ calls'[c].arg = "no_pid" <=> registry = {0}
          /\ calls'[c].arg \in {"process_dead", "process_not_found"}
               => (registry \notin {{}, {0}} /\ ~(registry \subseteq procs))
          /\ calls'[c].arg = "running" => (registry \notin {{}, {0}} /\ registry \subseteq procs)
          /\ calls'[c].arg = "error" => registry \notin {{}, {0}}
          /\ registry' = registry]_vars

C14_Witness ==
  \E c \in Slots :
    /\ calls[c].op = "health" /\ calls[c].arg = "no_pid"
    /\ registry = {0} /\ state = "ready"

\* C15: the stored last_seen_at of a consumer never decreases, whatever heartbeats, sweep passes
\* and forced closes interleave
C15_LastSeenMonotone ==
  [][\A id \in ConsumerIds : cons'.rows[id].last_seen_at >= cons.rows[id].last_seen_at]_vars

\* C16: a heartbeat for an id that matches no consumer fails with not-found, is never on its way
\* to a commit, and leaves every row as it was
C16_UnknownHeartbeatChangesNothing ==
  [][\A c \in Slots :
       /\ (cons'.calls[c].op = "heartbeat" /\ cons'.calls[c].id \notin ConsumerIds)
            => cons'.calls[c].pc = "done" /\ cons'.calls[c].out = "not_found"
       /\ (cons'.calls[c].op = "heartbeat" /\ cons'.calls[c].out = "not_found" /\ cons.calls[c].op # "heartbeat")
            => cons'.rows = cons.rows /\ cons'.sweep = cons.sweep]_vars
C16_Witness ==
  \E c \in Slots : /\ cons.calls[c] = ConsNotFound("heartbeat", 0)
                   /\ cons.now > 0
                   /\ \E id \in ConsumerIds : cons.rows[id].state \in OpenStates

\* C17: one sweep pass with timeout T selects exactly the CONNECTING and CONNECTED consumers last
\* seen more than T ago, its commit closes each of them (CLOSED, closed_at the time of the pass,
\* reason heartbeat_timeout) and writes no other consumer; a pass that selects nothing writes nothing
C17_SweepClosesExactlyStale ==
  [][/\ (cons.sweep.pc = "sleep" /\ cons'.sweep.pc = "commit")
          => /\ cons'.sweep.stale =
                  {id \in ConsumerIds : /\ cons.rows[id].state \in {"connecting", "connected"}
                                        /\ cons.now - cons.rows[id].last_seen_at > heartbeat_timeout_seconds}
             /\ cons'.sweep.t = cons.now
             /\ cons'.rows = cons.rows
     /\ (cons.sweep.pc = "sleep" /\ cons'.sweep.pc = "sleep" /\ cons'.now = cons.now /\ cons'.calls = cons.calls)
          => cons'.rows = cons.rows
     /\ (cons.sweep.pc = "commit" /\ cons'.sweep.pc = "sleep" /\ cons'.sweep.errors = cons.sweep.errors)
          => \A id \in ConsumerIds :
               IF id \in cons.sweep.stale
                 THEN /\ cons'.rows[id].state = "closed"
                      /\ cons'.rows[id].closed_at = cons.sweep.t
                      /\ cons'.rows[id].metadata.cleanup_reason = "heartbeat_timeout"
                      /\ cons'.rows[id].last_seen_at = cons.rows[id].last_seen_at
                 ELSE cons'.rows[id] = cons.rows[id]]_vars
C17_Witness ==
  /\ cons.sweep.pc = "sleep" /\ cons.now = 61
  /\ \E a, b \in ConsumerIds :
       /\ cons.rows[a].state = "closed" /\ cons.rows[a].closed_at = 61
       /\ cons.rows[a].metadata.cleanup_reason = "heartbeat_timeout"
       /\ cons.rows[b].state \in OpenStates /\ cons.rows[b].last_seen_at = 1

\* the sweep task runs, passes raise at most MaxSweepErrors times, the clock moves on
SpecConsLive ==
  /\ InitCons /\ [][NextCons]_vars
  /\ WF_vars(Tick) /\ WF_vars(start_cleanup_task)
  /\ WF_vars(cleanup_stale_consumers) /\ WF_vars(cleanup_commit)

\* C18: while the sweep task runs, a CONNECTING or CONNECTED consumer that sends no further
\* heartbeat (and that no administrator closes) is eventually CLOSED with reason
\* heartbeat_timeout, also after passes that raised
C18_SilentConsumerEventuallyClosed ==
  \A id \in ConsumerIds :
    (<>[](cons.sweep.pc # "off"))
      => []((cons.rows[id].state \in OpenStates
               /\ [](\A c \in Slots : cons.calls[c].pc \in {"hb_commit", "fc_commit"} => cons.calls[c].id # id))
             => <>(/\ cons.rows[id].state = "closed"
                   /\ cons.rows[id].metadata.cleanup_reason = "heartbeat_timeout"))
C18_Witness ==
  /\ cons.sweep.errors = MaxSweepErrors /\ cons.now = MaxClock
  /\ \E id \in ConsumerIds : /\ cons.rows[id].state = "closed"
                             /\ cons.rows[id].last_seen_at = 61
                             /\ cons.rows[id].metadata.cleanup_reason = "heartbeat_timeout"
                             /\ ~cons.rows[id].metadata.force_closed

\* C19: once the stored state of a consumer is CLOSED, no heartbeat, sweep pass or forced close,
\* in any interleaving, changes it to another value
C19_ClosedIsTerminal ==
  [][\A id \in ConsumerIds : cons.rows[id].state = "closed" => cons'.rows[id].state = "closed"]_vars
C19_Witness ==
  \E id \in ConsumerIds : /\ cons.rows[id].state = "closed"
                          /\ cons.rows[id].metadata.force_closed
                          /\ cons.rows[id].last_seen_at > cons.rows[id].closed_at

C21_CreateRequiresReady ==
  [][\A c \in Slots :
       /\ (FreeSlot(c) /\ calls'[c].op = "create" /\ nops' = nops + 1
             /\ catalog # "no_stream" /\ state # "ready")
            => /\ calls'[c].pc = "done" /\ calls'[c].out = "raised"
               /\ UNCHANGED <<state, audit, producers, fabric, nextFab, codec>>
       /\ (calls'[c].op = "create" /\ calls'[c].pc \in {"cp_fabric", "cp_commit"})
            => calls'[c].view = "ready"]_vars
C21_Witness ==
  \E c \in Slots : /\ calls[c].op = "create" /\ calls[c].out = "raised" /\ calls[c].arg = "check"
                   /\ calls[c].view = "live" /\ state = "live"
                   /\ Len(producers) = 1 /\ Cardinality(fabric) = 1 /\ Len(audit) = 3

\* C22: the ACTIVE Producer row and the LIVE transition of its stream are committed together or
\* not at all: a step stores a new Producer row exactly when it stores the state LIVE with its
\* audit row, the row is ACTIVE, and a create_producer that raised before or in its commit
\* stored neither
C22_ProducerAndLiveTogether ==
  [][/\ (Len(producers') > Len(producers))
          = (Len(audit') > Len(audit) /\ Last(audit').to_state = "live")
     /\ (Len(producers') > Len(producers))
          => /\ state' = "live"
             /\ Len(producers') = Len(producers) + 1
             /\ Last(producers').state = "active"
     /\ \A c \in Slots :
          (calls[c].pc \in {"cp_fabric", "cp_commit"} /\ calls'[c].out = "raised" /\ calls'[c].arg \in {"fabric", "commit"})
            => UNCHANGED <<producers, state, audit>>]_vars
C22_Witness ==
  \E c \in Slots : /\ calls[c].op = "create" /\ calls[c].out = "raised" /\ calls[c].arg = "commit"
                   /\ producers = << >> /\ state = "ready" /\ fabric # {}
                   /\ \A i \in 1..Len(audit) : audit[i].to_state # "live"

\* C23: close_producer closes the fabric producer, then the transport, then the router; it goes
\* on to the store only after all three; on success the stored Producer row is CLOSED and holds
\* a close timestamp, and the stream is moved to STOPPED (with its audit row) exactly when the
\* Stream object the call selected was LIVE, otherwise its state and audit rows are left as they are
C23_CloseOrderAndOutcome ==
  [][\A c \in Slots :
       /\ calls'[c].op = "close"
            => /\ Len(calls'[c].closed) <= 3
               /\ \A i \in 1..Len(calls'[c].closed) :
                    calls'[c].closed[i] = <<"producer", "transport", "router">>[i]
       /\ (calls'[c].op = "close" /\ calls'[c].pc \in {"cl_stream", "cl_commit"})
            => calls'[c].closed = <<"producer", "transport", "router">>
       /\ (calls[c].pc = "cl_commit" /\ calls'[c].pc = "done")
            => /\ calls'[c].out = "ok"
               /\ producers'[calls[c].prod].state = "closed"
               /\ "closed_at" \in DOMAIN producers'[calls[c].prod]
               /\ \A f \in fabric' : f.id # producers[calls[c].prod].mediasoup_producer_id
               /\ IF calls[c].view = "live"
                    THEN state' = "stopped" /\ audit' = Append(audit, StreamStateTransition("live", "stopped", "producer closed"))
                    ELSE UNCHANGED <<state, audit>>]_vars

\* C24: a producer is created for a stream only when no producer of that stream exists any more:
\* when create_producer adds a producer to the fabric, the fabric holds no other producer of the
\* stream and every stored Producer row of the stream is CLOSED
C24_OldProducersClosedFirst ==
  [][\A c \in Slots :
       (calls[c].pc = "cp_fabric" /\ calls'[c].pc = "cp_commit")
         => /\ fabric = {}
            /\ \A i \in 1..Len(producers) : producers[i].state = "closed"]_vars

C26_RoomsMatchLatestAdd ==
  \A stream_id \in RoomIds :
    RoomConnections(ws.stream_rooms, stream_id) = {id \in ConnectionIds : ws.latest[id] = stream_id}

C28_RestartAlwaysStarts ==
  [][\A c \in Slots :
       /\ (calls'[c].restart /\ calls'[c].op = "stop") => calls'[c].pc \in {"st_stop", "st_commit", "rs_sleep"}
       /\ (calls[c].restart /\ calls[c].pc \in {"st_stop", "st_commit"} /\ calls'[c] # calls[c])
            => calls'[c].restart /\ calls'[c].pc \in {"st_commit", "rs_sleep"}
       /\ (calls[c].restart /\ calls[c].pc = "rs_sleep" /\ calls'[c] # calls[c])
            => /\ calls'[c].restart /\ calls'[c].op = "start"
               /\ \/ calls'[c].pc = "si_init"
                  \/ calls'[c].pc = "done" /\ calls'[c].out = "raised" /\ calls'[c].arg = "load"
       /\ (calls[c].restart /\ calls[c].pc # "done" /\ calls'[c].pc = "done")
            => calls[c].op = "start" \/ calls[c].pc = "rs_sleep"]_vars
C28_Witness ==
  \E c \in Slots : /\ calls[c].restart /\ calls[c].op = "start" /\ calls[c].pc = "si_init"
                   /\ calls[c].arg = "raised"
                   /\ state # "stopped"

\* C29: the stored state of a stream becomes LIVE only from READY: no step stores LIVE over
\* STOPPED, ERROR or any other state, so a stopped or failed stream is LIVE again only after
\* it has been INITIALIZING and READY
C29_LiveOnlyFromReady ==
  [][(state' = "live" /\ state # "live") => state = "ready"]_vars

\* C30: when the processing of one stale consumer fails in a pass, the other stale consumers
\* the pass selected are closed by that pass and their closure is stored
C30_OtherStaleConsumersClosed ==
  [][(cons.sweep.pc = "sleep" /\ cons'.sweep.failed # 0 /\ cons'.sweep.errors = cons.sweep.errors + 1)
       => \A id \in StaleConsumers(cons.rows, cons.now) \ {cons'.sweep.failed} :
            cons'.rows[id].state = "closed"]_vars

\* C31: at most one sweep task exists at any time, and when no stop_cleanup_task is in flight
\* and the handle is None (the task was stopped and not started again), no task is left that
\* could run a pass
C31_AtMostOneSweepTask ==
  /\ Cardinality(task.running) <= 1
  /\ ((task.handle = 0 /\ \A c \in Slots : task.stops[c] = 0) => task.running = {})

\* C32: start_ingestion for an unknown stream, a missing camera or a camera without rtsp_url
\* raises in the step that loads them: the call is over, and the stream state, the audit rows,
\* codec_config, the producers, the registry, the processes and the fabric are untouched
C32_StartFailsBeforeAnyEffect ==
  [][\A c \in Slots :
       (catalog # "ok" /\ FreeSlot(c) /\ nops' = nops + 1 /\ calls'[c].op = "start")
         => /\ calls'[c].pc = "done" /\ calls'[c].out = "raised" /\ calls'[c].arg = "load"
            /\ UNCHANGED <<state, audit, codec, producers, registry, procs, pipeline, nextPid, fabric, nextFab>>]_vars
C32_Witness ==
  \E c \in Slots : /\ catalog = "no_rtsp_url" /\ calls[c].op = "start" /\ ~calls[c].restart
                   /\ calls[c].pc = "done" /\ calls[c].out = "raised" /\ calls[c].arg = "load"
                   /\ state = "initializing" /\ Len(audit) = 1

\* C33: in the stored audit rows of the stream the first row has from_state None, every later
\* row has the to_state of the row before it as its from_state
C33_AuditChain ==
  /\ Len(audit) > 0 => audit[1].from_state = "none"
  /\ \A i \in 2..Len(audit) : audit[i].from_state = audit[i - 1].to_state

\* C34: whenever the stored state of the stream is STOPPED, active_processes has no entry for
\* it and none of its forwarding processes is running
C34_StoppedHasNoProcess ==
  state = "stopped" => (registry = {} /\ procs = {})

\* C35: whenever the stored state of the stream is LIVE, exactly one of its Producer rows is ACTIVE
C35_LiveHasOneActiveProducer ==
  state = "live" => Cardinality({i \in 1..Len(producers) : producers[i].state = "active"}) = 1
\* C36: whenever a Producer row of the stream is ACTIVE, the stored state of the stream is LIVE
C36_ActiveProducerImpliesLive ==
  (\E i \in 1..Len(producers) : producers[i].state = "active") => state = "live"

\* C37: a stop_ingestion that fails at its transition (the state it loaded has no edge to
\* STOPPED) has stopped no process and has left the state, the audit rows and the registry
\* entry as they were
C37_FailedStopHasNoEffect ==
  [][\A c \in Slots :
       (/\ calls[c].op = "stop" /\ ~calls[c].restart
        /\ calls[c].pc \in {"st_stop", "st_commit"} /\ calls'[c].pc # calls[c].pc
        /\ ~is_valid_transition(calls[c].view, "stopped"))
         => UNCHANGED <<procs, pipeline, state, audit, registry>>]_vars

\* C38: when record_heartbeat returns its acknowledgment for a consumer, the stored row of that
\* consumer is not CLOSED
C38_AckedConsumerNotClosed ==
  [][\A c \in Slots :
       (cons.calls[c].pc = "hb_commit" /\ cons'.calls[c].pc = "done" /\ cons'.calls[c].out = "ok")
         => cons'.rows[cons.calls[c].id].state # "closed"]_vars

\* C39: the port of every active stream is 10000 + (ssrc mod 50000) and lies in 10000..59999,
\* and two streams that are active at the same time with different ssrc have different ports
C39_PortsInRangeAndDistinct ==
  /\ \A s \in StreamIds : active_ports.entries[s] # NoEntry =>
       /\ active_ports.entries[s].rtp_port = 10000 + (active_ports.entries[s].ssrc % 50000)
       /\ active_ports.entries[s].rtp_port \in 10000..59999
  /\ \A s, t \in StreamIds :
       (/\ s # t /\ active_ports.entries[s] # NoEntry /\ active_ports.entries[t] # NoEntry
        /\ active_ports.entries[s].ssrc # active_ports.entries[t].ssrc)
         => active_ports.entries[s].rtp_port # active_ports.entries[t].rtp_port

====
